---- MODULE Spec2Model ----
(***************************************************************************)
(* Black-Scholes option model (class BsOption of main.py): closed-form     *)
(* prices, Greeks, the bisection solver implied_volatility and the         *)
(* strategy pricer, as a state machine over one BsOption object.           *)
(*                                                                         *)
(* Floating-point numbers are modelled as fixed-point integers in units of *)
(* 1/ONE, together with the IEEE special values the numpy formulas can     *)
(* produce (nan, +inf, -inf).  A Python float is the record                *)
(* [k |-> "num" | "nan" | "inf" | "ninf" | "raise", v |-> Int]; "raise"    *)
(* stands for a Python exception escaping the expression.                  *)
(***************************************************************************)
EXTENDS Integers, Sequences, FiniteSets, TLC

-----------------------------------------------------------------------------
(* Fixed-point arithmetic: the representation of Python floats.            *)

ONE == 10 ^ 6
LIMB == 10 ^ 3
\* Magnitudes of 2000.0 and above saturate here; every formula that reads
\* such a value (N, norm.pdf) is constant beyond |x| = 8.
HUGE == 2 * 10 ^ 9

Abs(a) == IF a < 0 THEN -a ELSE a
Sgn(a) == IF a < 0 THEN -1 ELSE 1

\* floor(a * b / ONE) for a, b >= 0 without leaving 32-bit integers
MulU(a, b) ==
    LET ah == a \div LIMB
        al == a % LIMB
        bh == b \div LIMB
        bl == b % LIMB
    IN  ah * bh + (ah * bl + al * bh + (al * bl) \div LIMB) \div LIMB

Mul(a, b) == Sgn(a) * Sgn(b) * MulU(Abs(a), Abs(b))

\* the n decimal digits of rem / b after the point, for 0 <= rem < b
RECURSIVE DivDigits(_, _, _)
DivDigits(rem, b, n) ==
    IF n = 0 THEN 0
    ELSE LET r == rem * 10
         IN  (r \div b) * (10 ^ (n - 1)) + DivDigits(r % b, b, n - 1)

\* floor(a * ONE / b) for a >= 0, b > 0, saturating at HUGE; a divisor of
\* 200.0 and above is taken to whole units
DivU(a, b) ==
    IF a \div b >= 2000 THEN HUGE
    ELSE IF b >= 200 * ONE THEN a \div (b \div ONE)
    ELSE (a \div b) * ONE + DivDigits(a % b, b, 6)

Div(a, b) == Sgn(a) * Sgn(b) * DivU(Abs(a), Abs(b))

\* Newton iteration for the square root of t > 0
RECURSIVE SqrtIter(_, _, _)
SqrtIter(t, y, n) ==
    LET next == (y + Div(t, y)) \div 2
    IN  IF n = 0 \/ next = y THEN y ELSE SqrtIter(t, next, n - 1)

Sqrt(t) == IF t = 0 THEN 0 ELSE SqrtIter(t, IF t > ONE THEN t ELSE ONE, 12)

\* sum of the Taylor series of exp at f in [0, 1), from term number n on
RECURSIVE ExpSeries(_, _, _)
ExpSeries(term, f, n) ==
    IF term = 0 \/ n > 14 THEN 0
    ELSE term + ExpSeries(Mul(term, f) \div n, f, n + 1)

RECURSIVE PowE(_, _)
PowE(y, k) ==
    IF k = 0 THEN y
    ELSE IF k > 0 THEN PowE(Mul(y, 2718282), k - 1)
    ELSE PowE(Mul(y, 367879), k + 1)

Exp(x) ==
    IF x < -15 * ONE THEN 0
    ELSE IF x > 7 * ONE THEN HUGE
    ELSE LET k == x \div ONE
             f == x - k * ONE
         IN  PowE(ExpSeries(ONE, f, 1), k)

\* 2 * atanh(z) = 2 (z + z^3/3 + z^5/5 + ...), |z| <= 1/3
RECURSIVE AtanhSeries(_, _, _)
AtanhSeries(pow, zz, n) ==
    IF pow = 0 \/ n > 21 THEN 0
    ELSE pow \div n + AtanhSeries(Mul(pow, zz), zz, n + 2)

\* natural logarithm of x > 0, after halving or doubling x into [1, 2)
RECURSIVE Ln(_)
Ln(x) ==
    IF x >= 2 * ONE THEN 693147 + Ln(x \div 2)
    ELSE IF x < ONE THEN Ln(2 * x) - 693147
    ELSE LET z == Div(x - ONE, x + ONE)
         IN  2 * AtanhSeries(z, Mul(z, z), 1)

\* standard normal density exp(-x^2/2)/sqrt(2 pi)
Pdf(x) ==
    IF Abs(x) > 8 * ONE THEN 0
    ELSE Mul(Exp(-(Mul(x, x) \div 2)), 398942)

\* standard normal distribution function for x >= 0 (Abramowitz-Stegun 26.2.17)
CdfPos(x) ==
    LET t == Div(ONE, ONE + Mul(231642, x))
        poly == Mul(t, 319382 + Mul(t, -356564 + Mul(t, 1781478
                       + Mul(t, -1821256 + Mul(t, 1330274)))))
    IN  ONE - Mul(Pdf(x), poly)

Cdf(x) ==
    IF x > 8 * ONE THEN ONE
    ELSE IF x < -8 * ONE THEN 0
    ELSE IF x >= 0 THEN CdfPos(x)
    ELSE ONE - CdfPos(-x)

-----------------------------------------------------------------------------
(* Python floats with the IEEE special values, and escaping exceptions.    *)

Num(v) == [k |-> "num", v |-> v]
NaN == [k |-> "nan", v |-> 0]
Inf == [k |-> "inf", v |-> 1]
NInf == [k |-> "ninf", v |-> -1]
Raise == [k |-> "raise", v |-> 0]

IsInf(a) == a.k \in {"inf", "ninf"}
FSgn(a) == Sgn(a.v)
FNeg(a) ==
    IF a.k = "num" THEN Num(-a.v)
    ELSE IF a.k = "inf" THEN NInf
    ELSE IF a.k = "ninf" THEN Inf
    ELSE a

FAdd(a, b) ==
    IF a.k = "raise" \/ b.k = "raise" THEN Raise
    ELSE IF a.k = "nan" \/ b.k = "nan" THEN NaN
    ELSE IF IsInf(a) /\ IsInf(b) THEN (IF a.k = b.k THEN a ELSE NaN)
    ELSE IF IsInf(a) THEN a
    ELSE IF IsInf(b) THEN b
    ELSE Num(a.v + b.v)

FSub(a, b) == FAdd(a, FNeg(b))

FMul(a, b) ==
    IF a.k = "raise" \/ b.k = "raise" THEN Raise
    ELSE IF a.k = "nan" \/ b.k = "nan" THEN NaN
    ELSE IF IsInf(a) \/ IsInf(b)
         THEN IF a.v = 0 \/ b.v = 0 THEN NaN
              ELSE IF FSgn(a) * FSgn(b) > 0 THEN Inf ELSE NInf
    ELSE Num(Mul(a.v, b.v))

\* numpy float64 division: x/0 is +-inf, 0/0 is nan, no exception
FDiv(a, b) ==
    IF a.k = "raise" \/ b.k = "raise" THEN Raise
    ELSE IF a.k = "nan" \/ b.k = "nan" THEN NaN
    ELSE IF IsInf(a) THEN (IF IsInf(b) THEN NaN
                           ELSE IF FSgn(a) * FSgn(b) > 0 THEN Inf ELSE NInf)
    ELSE IF IsInf(b) THEN Num(0)
    ELSE IF b.v = 0 THEN (IF a.v = 0 THEN NaN
                          ELSE IF a.v > 0 THEN Inf ELSE NInf)
    ELSE Num(Div(a.v, b.v))

FAbs(a) == IF a.k = "num" THEN Num(Abs(a.v)) ELSE IF a.k = "ninf" THEN Inf ELSE a

\* a < b on floats: False whenever either side is nan
FLt(a, b) ==
    IF a.k = "nan" \/ b.k = "nan" THEN FALSE
    ELSE IF a.k = "inf" \/ b.k = "ninf" THEN FALSE
    ELSE IF a.k = "ninf" \/ b.k = "inf" THEN TRUE
    ELSE a.v < b.v

\* Python's S / K on plain numbers: ZeroDivisionError when K is zero
PyDiv(a, b) == IF b = 0 THEN Raise ELSE Num(Div(a, b))

\* np.log: nan below zero, -inf at zero
FLog(a) ==
    IF a.k # "num" THEN a
    ELSE IF a.v < 0 THEN NaN
    ELSE IF a.v = 0 THEN NInf
    ELSE Num(Ln(a.v))

\* np.sqrt of a plain number: nan below zero
FSqrt(t) == IF t < 0 THEN NaN ELSE Num(Sqrt(t))

\* np.exp of a plain number
FExp(x) == Num(Exp(x))

\* norm.pdf
NormPdf(x) ==
    IF x.k = "num" THEN Num(Pdf(x.v))
    ELSE IF IsInf(x) THEN Num(0)
    ELSE x

-----------------------------------------------------------------------------
(* class BsOption: the formulas                                            *)

N(x) ==
    IF x.k = "num" THEN Num(Cdf(x.v))
    ELSE IF x.k = "inf" THEN Num(ONE)
    ELSE IF x.k = "ninf" THEN Num(0)
    ELSE x

d1(o) ==
    FDiv(FAdd(FLog(PyDiv(o.S, o.K)),
              FMul(Num(o.r - o.q + Mul(o.sigma, o.sigma) \div 2), Num(o.T))),
         FMul(Num(o.sigma), FSqrt(o.T)))

d2(o) == FSub(d1(o), FMul(Num(o.sigma), FSqrt(o.T)))

_call_value(o) ==
    FSub(FMul(FMul(Num(o.S), FExp(Mul(-o.q, o.T))), N(d1(o))),
         FMul(FMul(Num(o.K), FExp(Mul(-o.r, o.T))), N(d2(o))))

_put_value(o) ==
    FSub(FMul(FMul(Num(o.K), FExp(Mul(-o.r, o.T))), N(FNeg(d2(o)))),
         FMul(FMul(Num(o.S), FExp(Mul(-o.q, o.T))), N(FNeg(d1(o)))))

\* What a call hands back to its caller: a float ("value"), the mapping of
\* price('B') ("dict"), Python's None ("none"), or an exception ("raise").
\* An exception escaping a sub-expression escapes the call.
RetRaise(e) ==
    [kind |-> "raise", exc |-> e, val |-> Num(0), call |-> Num(0), put |-> Num(0)]

RetNone ==
    [kind |-> "none", exc |-> "", val |-> Num(0), call |-> Num(0), put |-> Num(0)]

RetValue(f) ==
    IF f.k = "raise" THEN RetRaise("ZeroDivisionError")
    ELSE [kind |-> "value", exc |-> "", val |-> f, call |-> Num(0), put |-> Num(0)]

RetDict(c, p) ==
    IF c.k = "raise" \/ p.k = "raise" THEN RetRaise("ZeroDivisionError")
    ELSE [kind |-> "dict", exc |-> "", val |-> Num(0), call |-> c, put |-> p]

\* price with the 'B' mapping filled from the call value alone
price_one_sided(o, type_) ==
    IF type_ = "C" THEN RetValue(_call_value(o))
    ELSE IF type_ = "P" THEN RetValue(_put_value(o))
    ELSE IF type_ = "B" THEN RetDict(_call_value(o), _call_value(o))
    ELSE RetRaise("ValueError")

price(o, type_) ==
    IF type_ = "C" THEN RetValue(_call_value(o))
    ELSE IF type_ = "P" THEN RetValue(_put_value(o))
    ELSE IF type_ = "B" THEN RetDict(_call_value(o), _put_value(o))
    ELSE RetRaise("ValueError")

delta(o, type_) ==
    LET x1 == d1(o)
    IN  IF x1.k = "raise" THEN RetRaise("ZeroDivisionError")
        ELSE IF type_ = "C" THEN RetValue(FMul(FExp(Mul(-o.q, o.T)), N(x1)))
        ELSE IF type_ = "P"
             THEN RetValue(FMul(FExp(Mul(-o.q, o.T)), FSub(N(x1), Num(ONE))))
        ELSE RetNone

gamma(o) ==
    LET x1 == d1(o)
    IN  RetValue(FDiv(FMul(FExp(Mul(-o.q, o.T)), NormPdf(x1)),
                      FMul(FMul(Num(o.S), Num(o.sigma)), FSqrt(o.T))))

theta(o, type_) ==
    LET x1 == d1(o)
        x2 == d2(o)
        decay == FDiv(FMul(FMul(FMul(Num(-o.S), Num(o.sigma)),
                                FExp(Mul(-o.q, o.T))), NormPdf(x1)),
                      FMul(Num(2 * ONE), FSqrt(o.T)))
        rK == FMul(FMul(Num(o.r), Num(o.K)), FExp(Mul(-o.r, o.T)))
        qS == FMul(FMul(Num(o.q), Num(o.S)), FExp(Mul(-o.q, o.T)))
    IN  IF x1.k = "raise" THEN RetRaise("ZeroDivisionError")
        ELSE IF type_ = "C"
             THEN RetValue(FAdd(FSub(decay, FMul(rK, N(x2))), FMul(qS, N(x1))))
        ELSE IF type_ = "P"
             THEN RetValue(FSub(FAdd(decay, FMul(rK, N(FNeg(x2)))),
                                FMul(qS, N(FNeg(x1)))))
        ELSE RetNone

vega(o) ==
    LET x1 == d1(o)
    IN  RetValue(FMul(FMul(FMul(Num(o.S), FExp(Mul(-o.q, o.T))), FSqrt(o.T)),
                      NormPdf(x1)))

rho(o, type_) ==
    LET x2 == d2(o)
        KT == FMul(FMul(Num(o.K), Num(o.T)), FExp(Mul(-o.r, o.T)))
    IN  IF x2.k = "raise" THEN RetRaise("ZeroDivisionError")
        ELSE IF type_ = "C" THEN RetValue(FMul(KT, N(x2)))
        ELSE IF type_ = "P" THEN RetValue(FMul(FNeg(KT), N(FNeg(x2))))
        ELSE RetNone

-----------------------------------------------------------------------------
(* Objects.  The heap is the sequence of BsOption objects alive during a   *)
(* call: heap[1] is the caller's object, later entries are the auxiliary   *)
(* objects a strategy builds.  A constructor call returns the heap with    *)
(* the new object appended; the new object's id is its index.              *)

Fields(S, K, T, r, sigma, q) ==
    [S |-> S, K |-> K, T |-> T, r |-> r, sigma |-> sigma, q |-> q]

\* a constructor that keeps the fields in storage shared with the first object
BsOption_shared(h, S, K, T, r, sigma, q) ==
    [Append(h, Fields(S, K, T, r, sigma, q)) EXCEPT
        ![1] = Fields(S, K, T, r, sigma, q)]

BsOption(h, S, K, T, r, sigma, q) == Append(h, Fields(S, K, T, r, sigma, q))

\* inputs of the model
MaxStrike == 3
MaxTarget == 2

Strikes == {(2 * k + 6) * ONE : k \in 1 .. MaxStrike}
Expiries == {ONE, 0, -(ONE \div 2)}
Vols == {3 * (ONE \div 10), 0, -3 * (ONE \div 10)}
\* every strike with a valid expiry and volatility, and each invalid
\* expiry or volatility once
Objects ==
    {o \in [S : {10 * ONE}, K : Strikes, T : Expiries, r : {ONE \div 10},
            sigma : Vols, q : {0}] :
        \/ o.T > 0 /\ o.sigma > 0
        \/ o.K = 12 * ONE /\ (o.T > 0 \/ o.sigma > 0)}
Kinds == {"C", "P", "B", "X"}
Strategies == {"Straddle", "Strangle", "CalendarSpread", "Butterfly"}
\* observed market prices handed to implied_volatility
TargetPrices == {(12 * ONE) \div t : t \in 1 .. MaxTarget}

option_strategy_price(h, strategy_type) ==
    LET self == h[1]
        n == Len(h)
    IN  IF strategy_type = "Straddle"
        THEN [heap |-> h,
              ret |-> RetValue(FAdd(_call_value(self), _put_value(self)))]
        ELSE IF strategy_type = "Strangle"
        THEN LET call_strike == self.K + 10 * ONE
                 put_strike == self.K - 10 * ONE
                 h1 == BsOption(h, self.S, call_strike, self.T, self.r,
                                self.sigma, self.q)
                 h2 == BsOption(h1, self.S, put_strike, self.T, self.r,
                                self.sigma, self.q)
                 call_price == _call_value(h2[n + 1])
                 put_price == _put_value(h2[n + 2])
             IN  [heap |-> h2, ret |-> RetValue(FAdd(call_price, put_price))]
        ELSE IF strategy_type = "CalendarSpread"
        THEN LET h1 == BsOption(h, self.S, self.K, self.T + ONE \div 2, self.r,
                                self.sigma, self.q)
                 h2 == BsOption(h1, self.S, self.K, self.T, self.r,
                                self.sigma, self.q)
                 long_price == _call_value(h2[n + 1])
                 short_price == _call_value(h2[n + 2])
             IN  [heap |-> h2, ret |-> RetValue(FSub(long_price, short_price))]
        ELSE [heap |-> h, ret |-> RetRaise("ValueError")]

-----------------------------------------------------------------------------
(* implied_volatility: its constants and one loop iteration                *)

tolerance == 10
max_iter == 1000
lower_vol0 == 1000
upper_vol0 == 5 * ONE

\* (lower_vol + upper_vol) / 2 in floating point: the sum is rounded to the
\* nearest representable number, ties to even, and then halved
Midpoint(lo, hi) ==
    LET sum == lo + hi
        half == sum \div 2
    IN  IF sum % 2 = 0 THEN half
        ELSE IF half % 2 = 0 THEN half ELSE half + 1

\* the estimate of one iteration; "unbound" when neither branch assigned it
option_price_est(o, type_) ==
    IF type_ = "C" THEN _call_value(o)
    ELSE IF type_ = "P" THEN _put_value(o)
    ELSE [k |-> "unbound", v |-> 0]

\* the convergence test without abs
Converged_signed(error) == FLt(error, Num(tolerance))

\* abs(error) < tolerance
Converged(error) == FLt(FAbs(error), Num(tolerance))

\* the narrowing rule with the two bounds exchanged
Narrow_swapped(error, mid, lo, hi) ==
    IF FLt(error, Num(0))
    THEN [lower |-> mid, upper |-> hi, moved |-> "lower"]
    ELSE [lower |-> lo, upper |-> mid, moved |-> "upper"]

\* the narrowing rule: error < 0 moves the upper bound, anything else
\* (a nan error included) the lower one
Narrow(error, mid, lo, hi) ==
    IF FLt(error, Num(0))
    THEN [lower |-> lo, upper |-> mid, moved |-> "upper"]
    ELSE [lower |-> mid, upper |-> hi, moved |-> "lower"]

\* a loop that runs one iteration too many
InRange_inclusive(n) == n <= max_iter

\* the for loop goes on
InRange(n) == n < max_iter

-----
(* The state machine: a caller constructs one object and calls its methods *)

VARIABLES
    heap,          \* the objects; heap[1] is the caller's
    pc,            \* "idle", or "loop" inside implied_volatility
    call,          \* the call in progress or last returned: method, arguments
    ret,           \* what the last call handed back
    i,             \* implied_volatility's locals
    lower_vol,
    upper_vol,
    mid_vol,
    constructed,   \* history: the fields the caller's object was built with
    solved,        \* history: implied_volatility has been called
    est_at,        \* history: the estimate computed when each bound was set
    firstStraddle  \* history: the first Straddle result since construction
                   \* or the last implied_volatility call

vars == <<heap, pc, call, ret, i, lower_vol, upper_vol, mid_vol,
          constructed, solved, est_at, firstStraddle>>

locals == <<i, lower_vol, upper_vol, mid_vol>>

\* fresh: the caller's object had its constructed fields when the call
\* began; repeat: a Straddle call that is not the first one
Call(op, arg, target, repeat) ==
    [op |-> op, arg |-> arg, target |-> target, repeat |-> repeat,
     fresh |-> heap[1] = constructed]

Unset == [k |-> "unset", v |-> 0]

Init ==
    /\ \E o \in Objects :
          /\ heap = BsOption(<<>>, o.S, o.K, o.T, o.r, o.sigma, o.q)
          /\ constructed = o
    /\ pc = "idle"
    /\ call = [op |-> "__init__", arg |-> "", target |-> 0, repeat |-> FALSE,
               fresh |-> TRUE]
    /\ ret = RetNone
    /\ i = 0
    /\ lower_vol = 0
    /\ upper_vol = 0
    /\ mid_vol = 0
    /\ solved = FALSE
    /\ est_at = [lower |-> Unset, upper |-> Unset]
    /\ firstStraddle = RetNone

\* a method without side effects on the caller's object: the objects of
\* an earlier call are gone, the result is handed back
Returns(op, arg, r) ==
    /\ pc = "idle"
    /\ heap' = <<heap[1]>>
    /\ call' = Call(op, arg, 0, FALSE)
    /\ ret' = r
    /\ UNCHANGED <<pc, locals, constructed, solved, est_at, firstStraddle>>

Price == \E type_ \in Kinds : Returns("price", type_, price(heap[1], type_))

Delta == \E type_ \in Kinds : Returns("delta", type_, delta(heap[1], type_))

Gamma == Returns("gamma", "", gamma(heap[1]))

Theta == \E type_ \in Kinds : Returns("theta", type_, theta(heap[1], type_))

Vega == Returns("vega", "", vega(heap[1]))

Rho == \E type_ \in Kinds : Returns("rho", type_, rho(heap[1], type_))

StrategyPrice ==
    /\ pc = "idle"
    /\ \E strategy_type \in Strategies :
       \E out \in {option_strategy_price(<<heap[1]>>, strategy_type)} :
        /\ heap' = out.heap
        /\ call' = Call("option_strategy_price", strategy_type, 0,
                        strategy_type = "Straddle"
                        /\ firstStraddle.kind # "none")
        /\ ret' = out.ret
        /\ firstStraddle' = IF strategy_type = "Straddle"
                               /\ firstStraddle.kind = "none"
                            THEN out.ret
                            ELSE firstStraddle
        /\ UNCHANGED <<pc, locals, constructed, solved, est_at>>

\* implied_volatility is entered: lines 85-88
IVCall ==
    \E option_price \in TargetPrices, type_ \in Kinds \ {"B"} :
        /\ pc = "idle"
        /\ pc' = "loop"
        /\ heap' = <<heap[1]>>
        /\ call' = Call("implied_volatility", type_, option_price, FALSE)
        /\ ret' = RetNone
        /\ i' = 0
        /\ lower_vol' = lower_vol0
        /\ upper_vol' = upper_vol0
        /\ mid_vol' = 0
        /\ solved' = TRUE
        /\ est_at' = [lower |-> Unset, upper |-> Unset]
        /\ firstStraddle' = RetNone
        /\ UNCHANGED constructed

\* the call leaves the loop with result r
IVLeave(r) ==
    /\ pc' = "idle"
    /\ ret' = r
    /\ UNCHANGED <<i, lower_vol, upper_vol, est_at>>

\* one iteration of the for loop: lines 91-107
IVIterate ==
    /\ pc = "loop"
    /\ InRange(i)
    /\ \E mid \in {Midpoint(lower_vol, upper_vol)} :
       \E self \in {[heap[1] EXCEPT !.sigma = mid]} :
       \E est \in {option_price_est(self, call.arg)} :
          /\ mid_vol' = mid
          /\ heap' = <<self>>
          /\ IF est.k = "unbound"
             THEN IVLeave(RetRaise("UnboundLocalError"))
             ELSE IF est.k = "raise"
             THEN IVLeave(RetRaise("ZeroDivisionError"))
             ELSE \E error \in {FSub(Num(call.target), est)} :
                  IF Converged(error)
                  THEN IVLeave(RetValue(Num(mid)))
                  ELSE \E b \in {Narrow(error, mid, lower_vol, upper_vol)} :
                       /\ pc' = "loop"
                       /\ ret' = ret
                       /\ i' = i + 1
                       /\ lower_vol' = b.lower
                       /\ upper_vol' = b.upper
                       /\ est_at' = [est_at EXCEPT ![b.moved] = est]
    /\ UNCHANGED <<call, constructed, solved, firstStraddle>>

\* the loop is exhausted: line 109
IVExhausted ==
    /\ pc = "loop"
    /\ ~InRange(i)
    /\ pc' = "idle"
    /\ ret' = RetRaise("Exception")
    /\ UNCHANGED <<heap, call, locals, constructed, solved, est_at,
                   firstStraddle>>

Next ==
    \/ Price
    \/ Delta
    \/ Gamma
    \/ Theta
    \/ Vega
    \/ Rho
    \/ StrategyPrice
    \/ IVCall
    \/ IVIterate
    \/ IVExhausted

Spec == Init /\ [][Next]_vars

-----------------------------------------------------------------------------
(* Properties                                                              *)

Returned(op) == pc = "idle" /\ call.op = op
PureOps == {"price", "delta", "gamma", "theta", "vega", "rho",
            "option_strategy_price"}
Valid(o) == o.S > 0 /\ o.K > 0 /\ o.T > 0 /\ o.sigma > 0

\* a <= b on floats: False whenever either side is nan
FLe(a, b) == (a = b /\ a.k # "nan") \/ FLt(a, b)

\* the model price of the caller's parameter set at volatility vol
PriceAt(vol) == option_price_est([constructed EXCEPT !.sigma = vol], call.arg)

\* C1: implied_volatility leaves the caller's parameter set as it was before
\* the call, whether it returns or fails.  Stated for kind C or P (C5 is
\* about the other kinds) and a call that began on the object as constructed.
C1_ParamsUnchanged ==
    Returned("implied_volatility") /\ call.arg \in {"C", "P"} /\ call.fresh
        => heap[1] = constructed

\* C2: implied_volatility never runs more than max_iter iterations: the
\* iteration count grows by one with every iteration that goes on and never
\* passes the cap; a call with kind C or P ends either with a volatility
\* found in fewer than max_iter completed iterations or with the exception
\* of line 109 raised after exactly max_iter iterations.
C2_StateInv ==
    /\ i \in 0 .. max_iter
    /\ Returned("implied_volatility") /\ call.arg \in {"C", "P"}
         => \/ ret.kind = "value" /\ i < max_iter
            \/ ret = RetRaise("Exception") /\ i = max_iter
C2_Step == pc = "loop" /\ pc' = "loop" => i' = i + 1 /\ i' <= max_iter
\* C2: the state part holds in every reachable state and the step part of
\* every step: the search ends within max_iter iterations, with a volatility
\* or with the exception raised once the cap is exhausted.
C2_Terminates == [] C2_StateInv /\ [][C2_Step]_vars

\* C2, its case: a search on a valid parameter set ran all max_iter
\* iterations and ended with the exception.
C2_Witness ==
    /\ Returned("implied_volatility")
    /\ ret = RetRaise("Exception")
    /\ i = max_iter
    /\ Valid(constructed)

\* C3: implied_volatility returns a value only if it is the midpoint of the
\* last iteration and the model price at it is within tolerance of the
\* target; it otherwise fails, and for a target above the model price at the
\* upper bound by the tolerance or more it fails with the exception of
\* line 109.
C3_OnlyConverged ==
    Returned("implied_volatility") =>
        /\ ret.kind \in {"value", "raise"}
        /\ ret.kind = "value" =>
              /\ ret.val = Num(mid_vol)
              /\ FLt(FAbs(FSub(Num(call.target), PriceAt(mid_vol))),
                     Num(tolerance))
        /\ call.arg \in {"C", "P"}
           /\ FLe(FAdd(PriceAt(upper_vol0), Num(tolerance)), Num(call.target))
              => ret = RetRaise("Exception")

\* C3, its case: a call target above the price at the upper bound, on a
\* valid parameter set; the search has ended, with a failure.
C3_Witness ==
    /\ Returned("implied_volatility")
    /\ call.arg = "C"
    /\ Valid(constructed)
    /\ FLt(PriceAt(upper_vol0), Num(call.target))
    /\ ret.kind = "raise"

\* C4: delta, theta and rho return a value for kind C or P and fail with an
\* error for any other kind.
C4_ExplicitError ==
    pc = "idle" /\ call.op \in {"delta", "theta", "rho"} /\ Valid(heap[1])
        => IF call.arg \in {"C", "P"} THEN ret.kind = "value"
           ELSE ret.kind = "raise"

\* C5: implied_volatility with a kind other than C or P fails with an
\* invalid-argument error (Python's ValueError) before any search step takes
\* effect, leaving the parameter set as before the call.
C5_InvalidKindRejected ==
    Returned("implied_volatility") /\ call.arg \notin {"C", "P"} /\ call.fresh
        => /\ ret = RetRaise("ValueError")
           /\ heap[1] = constructed

\* C6: no operation on a parameter set with non-positive T or sigma
\* completes by returning a value.
C6_DomainRejected ==
    pc = "idle" /\ call.op \in PureOps
    /\ (heap[1].T <= 0 \/ heap[1].sigma <= 0)
        => ret.kind = "raise"

\* C7: price with a kind outside {C, P, B} and option_strategy_price with an
\* unknown strategy fail with ValueError; price('B') returns the mapping of
\* the values price('C') and price('P') return for the same parameters.
C7_Dispatch ==
    /\ Returned("price") /\ call.arg \notin {"C", "P", "B"}
         => ret = RetRaise("ValueError")
    /\ Returned("option_strategy_price")
       /\ call.arg \notin {"Straddle", "Strangle", "CalendarSpread"}
         => ret = RetRaise("ValueError")
    /\ Returned("price") /\ call.arg = "B"
         => /\ ret.kind = "dict"
            /\ ret.call = price(heap[1], "C").val
            /\ ret.put = price(heap[1], "P").val

\* C7, its case: price('B') has returned a mapping of two different finite
\* values.
C7_Witness ==
    /\ Returned("price")
    /\ call.arg = "B"
    /\ ret.kind = "dict"
    /\ ret.call.k = "num" /\ ret.put.k = "num"
    /\ ret.call # ret.put

\* C8: as long as only price, the Greeks and option_strategy_price have been
\* called, the caller's object has the fields it was constructed with, the
\* legs of a Strangle or CalendarSpread are two further objects, and every
\* Straddle call returns what the first Straddle call returned.
C8_PureCalls ==
    ~solved =>
        /\ heap[1] = constructed
        /\ Returned("option_strategy_price")
           /\ call.arg \in {"Strangle", "CalendarSpread"}
             => Len(heap) = 3
        /\ Returned("option_strategy_price") /\ call.arg = "Straddle"
             => ret = firstStraddle

\* C8, its case: a second Straddle call on the same object has returned a
\* finite value, no search having run.
C8_Witness ==
    /\ ~solved
    /\ Returned("option_strategy_price")
    /\ call.arg = "Straddle"
    /\ call.repeat
    /\ ret.kind = "value" /\ ret.val.k = "num"

\* the model price at each bound is on its side of the target.  est_at holds
\* the estimate computed when a bound was set; a bound not set yet is the
\* initial one, for which InitiallyBracketed is the inequality itself.
Bracketed ==
    /\ est_at.lower.k = "unset" \/ FLe(est_at.lower, Num(call.target))
    /\ est_at.upper.k = "unset" \/ FLe(Num(call.target), est_at.upper)
InitiallyBracketed ==
    /\ FLe(PriceAt(lower_vol0), Num(call.target))
    /\ FLe(Num(call.target), PriceAt(upper_vol0))

\* C9 as claimed, its state part: at the start of every iteration
\* 0.001 <= lower < upper <= 5.0, and the bracket holds the target if it
\* did initially.
C9_StrictBracket ==
    pc = "loop" /\ InRange(i) /\ call.arg \in {"C", "P"} =>
        /\ lower_vol0 <= lower_vol
        /\ lower_vol < upper_vol
        /\ upper_vol <= upper_vol0
        /\ Bracketed \/ ~InitiallyBracketed

\* C9, amended: at the start of every iteration
\* 0.001 <= lower <= upper <= 5.0 (the bounds can meet), and
\* price(lower) <= target <= price(upper) if that held initially; an
\* iteration that goes on computes mid between the bounds, their midpoint up
\* to rounding, sets exactly one bound to mid (upper when error < 0, lower
\* otherwise) and leaves the other unchanged, so that the new width is at
\* most half the old one, rounded up.
C9_StateInv ==
    pc = "loop" /\ call.arg \in {"C", "P"} =>
        /\ est_at.lower.k = "unset" => lower_vol = lower_vol0
        /\ est_at.upper.k = "unset" => upper_vol = upper_vol0
        /\ lower_vol0 <= lower_vol
        /\ lower_vol <= upper_vol
        /\ upper_vol <= upper_vol0
        /\ Bracketed \/ ~InitiallyBracketed
C9_Step ==
    pc = "loop" /\ pc' = "loop" =>
        /\ lower_vol <= mid_vol' /\ mid_vol' <= upper_vol
        /\ Abs(2 * mid_vol' - (lower_vol + upper_vol)) <= 1
        /\ \/ /\ upper_vol' = mid_vol' /\ lower_vol' = lower_vol
              /\ FLt(FSub(Num(call.target), est_at'.upper), Num(0))
           \/ /\ lower_vol' = mid_vol' /\ upper_vol' = upper_vol
              /\ ~FLt(FSub(Num(call.target), est_at'.lower), Num(0))
        /\ upper_vol' - lower_vol' <= (upper_vol - lower_vol + 1) \div 2
\* C9, amended: the state part holds in every reachable state and the step
\* part of every iteration that goes on.
C9_Bisection == [] C9_StateInv /\ [][C9_Step]_vars

\* C9, its case: an iteration of a search on a valid parameter set starts
\* with the two bounds equal.
C9_Witness ==
    /\ pc = "loop"
    /\ InRange(i)
    /\ call.arg \in {"C", "P"}
    /\ Valid(constructed)
    /\ lower_vol = upper_vol

\* C10: the legs a Strangle or CalendarSpread builds from a parameter set
\* with S, K, T, sigma > 0 have a strictly positive strike, time to expiry
\* and volatility.
C10_LegsValid ==
    Returned("option_strategy_price")
    /\ call.arg \in {"Strangle", "CalendarSpread"}
    /\ Valid(heap[1])
        => \A j \in 2 .. Len(heap) :
              heap[j].K > 0 /\ heap[j].T > 0 /\ heap[j].sigma > 0

=============================================================================
